---- MODULE Spec2Model ----
(***************************************************************************)
(* BasePackager (src/client/patch/BasePackager.js): the metadata walk      *)
(* (findMetadataDescriptors), the classification predicates, packEntry and *)
(* generateTarGz, with the event sources they subscribe to (the klaw walk, *)
(* the tar pack, the gzip stream and the destination stream) as the        *)
(* environment.                                                            *)
(*                                                                         *)
(* A path is a sequence of tokens: "/", "\\" and "." are the characters    *)
(* the path functions look at, every other token is a run of characters    *)
(* that contains none of them.                                             *)
(***************************************************************************)
EXTENDS Integers, Sequences, FiniteSets, TLC

VARIABLES obj, runs, ftime, walk, tar

vars == <<obj, runs, ftime, walk, tar>>

(* ------------------------------ bounds -------------------------------- *)

\* longest descriptor list handed to generateTarGz by a caller
MaxDescs == 3

\* most 'error' events one walk emits
MaxWalkErrors == 2

\* file timestamps on disk range over 0..MaxTime
MaxTime == 1

\* longest list packed by invocations that run at once
MaxConcDescs == 1

\* invocations that can be alive at once
Runs == {1, 2}

(* --------------------------- the file system --------------------------- *)

SEP == "/"
BSL == "\\"
DOT == "."

\* the metadata root handed to findMetadataDescriptors
MetaRoot == <<SEP, "m">>

Under(rel) == MetaRoot \o <<SEP>> \o rel

\* what the walk can come across under the root: path and lstat kind
FsEntries ==
  { [path |-> MetaRoot,                                        kind |-> "dir"],
    [path |-> Under(<<"a", DOT, "json">>),                     kind |-> "file"],
    [path |-> Under(<<"d">>),                                  kind |-> "dir"],
    [path |-> Under(<<"d", SEP, "b", DOT, "json">>),           kind |-> "file"],
    [path |-> Under(<<"d", SEP, "c", DOT, "txt">>),            kind |-> "file"],
    [path |-> Under(<<"l", DOT, "json">>),                     kind |-> "symlink"],
    [path |-> Under(<<DOT, "json">>),                          kind |-> "file"],
    [path |-> Under(<<"e", DOT, "json">>),                     kind |-> "dir"],
    [path |-> Under(<<"e", DOT, "json", SEP, "x", BSL, "y", DOT, "json">>), kind |-> "file"] }

\* bytes of each file; a file may be empty
Content(fqp) ==
  IF fqp = Under(<<"a", DOT, "json">>) THEN <<7, 9>>
  ELSE IF fqp = Under(<<"d", SEP, "b", DOT, "json">>) THEN << >>
  ELSE <<5>>

(* ------------------------------ path ---------------------------------- *)

Max(S) == CHOOSE x \in S : \A y \in S : y <= x

\* index of the last separator of p, 0 when there is none
LastSep(p) == Max({0} \cup {i \in 1..Len(p) : p[i] = SEP})

\* the last portion of the path
Basename(p) == SubSeq(p, LastSep(p) + 1, Len(p))

\* the directory a path lies in
Dirname(p) == SubSeq(p, 1, LastSep(p) - 1)

\* path.extname: from the last "." of the last portion to its end; empty
\* when there is none, when that "." starts the portion, or for ".."
extname(p) ==
  LET b == Basename(p)
      d == Max({0} \cup {i \in 1..Len(b) : b[i] = DOT})
  IN  IF d <= 1 \/ b = <<DOT, DOT>> THEN << >> ELSE SubSeq(b, d, Len(b))

\* path.relative(from, to) for a path at or below from
relative(from, to) ==
  IF to = from THEN << >> ELSE SubSeq(to, Len(from) + 2, Len(to))

\* path.join(a, b): an empty part is dropped
join(a, b) ==
  IF b = << >> THEN a ELSE IF a = << >> THEN b ELSE a \o <<SEP>> \o b

KeepBackslashes(s) == s

\* s.split('\\').join('/')
SlashBackslashes(s) == [i \in 1..Len(s) |-> IF s[i] = BSL THEN SEP ELSE s[i]]

(* --------------------------- classification --------------------------- *)

JsonExt == <<DOT, "json">>

isMetadata(filePath) == extname(filePath) \in {JsonExt}

\* Array.prototype.indexOf: the first position (from 0) of a strictly equal
\* member, -1 when there is none
IndexOf(items, x) ==
  IF \E i \in 1..Len(items) : items[i] = x
  THEN (CHOOSE i \in 1..Len(items) : items[i] = x /\ \A j \in 1..(i - 1) : items[j] # x) - 1
  ELSE -1

\* a token with its letters in lower case
Lower(tok) == IF tok = "GO" THEN "go" ELSE IF tok = "JSON" THEN "json" ELSE tok

LowerAll(s) == [i \in 1..Len(s) |-> Lower(s[i])]

isSourceAnyCase(keep, filePath) == IndexOf(LowerAll(keep), LowerAll(extname(filePath))) # -1

isSourceOrBare(keep, filePath) ==
  extname(filePath) = << >> \/ IndexOf(keep, extname(filePath)) # -1

\* isSource, with this.keep an array
isSource(keep, filePath) == IndexOf(keep, extname(filePath)) # -1

(* ----------------------------- construction --------------------------- *)

\* a class: BasePackager itself, or a subclass and which methods it overrides
BaseClass == [isBase |-> TRUE, package |-> "base", findSource |-> "base"]

SubClasses == [isBase : {FALSE}, package : {"base", "own"}, findSource : {"base", "own"}]

Classes == {BaseClass} \cup SubClasses

\* the keep argument: left out, or an array of extensions
KeepUndefined == [type |-> "undefined", items |-> << >>]
KeepArray(items) == [type |-> "array", items |-> items]

GoExt == <<DOT, "go">>

KeepArgs ==
  { KeepUndefined, KeepArray(<< >>), KeepArray(<<GoExt>>), KeepArray(<<GoExt, JsonExt>>),
    KeepArray(<<GoExt, << >> >>) }

NoCall == [op |-> "none", path |-> << >>, result |-> "none"]

NoObject ==
  [status |-> "none", error |-> "none", cls |-> BaseClass,
   keepSet |-> FALSE, keep |-> KeepUndefined, last |-> NoCall]

ConstructorNoPackageCheck(cls, keep) ==
  IF cls.isBase
  THEN [NoObject EXCEPT !.status = "threw", !.error = "TypeError", !.cls = cls]
  ELSE [NoObject EXCEPT !.status = "ok", !.cls = cls, !.keepSet = TRUE, !.keep = keep]

\* new cls(keep)
Constructor(cls, keep) ==
  IF cls.isBase
  THEN [NoObject EXCEPT !.status = "threw", !.error = "TypeError", !.cls = cls]
  ELSE IF cls.package = "base"
  THEN [NoObject EXCEPT !.status = "threw", !.error = "TypeError", !.cls = cls]
  ELSE [NoObject EXCEPT !.status = "ok", !.cls = cls, !.keepSet = TRUE, !.keep = keep]

\* this.findSource(filepath): the base method throws, an override runs
findSource(o) ==
  [o EXCEPT !.last = [op |-> "findSource", path |-> << >>,
                      result |-> IF o.cls.findSource = "base" THEN "Error" ELSE "override"]]

\* paths the predicates are asked about
PredPaths ==
  { <<"x", DOT, "go">>, <<"x", DOT, "GO">>, <<"README">>, <<DOT, "go">>,
    <<"a", DOT, "json">>, <<"a", DOT, "JSON">>, <<"v", DOT, "json", SEP, "Makefile">>,
    <<"x", DOT, "go", DOT, "json">> }

BoolResult(b) == IF b THEN "true" ELSE "false"

(* ------------------------------ promises ------------------------------ *)

NoValue == [kind |-> "none", at |-> 0, list |-> << >>]
TrueValue == [kind |-> "true", at |-> 0, list |-> << >>]
ListValue(l) == [kind |-> "list", at |-> 0, list |-> l]
ErrValue(k, n) == [kind |-> k, at |-> n, list |-> << >>]

PendingPromise == [state |-> "pending", value |-> NoValue]

\* resolve / reject of a Promise executor: the first call settles it
SettleResolve(p, v) ==
  IF p.state = "pending" THEN [state |-> "resolved", value |-> v] ELSE p

SettleReject(p, e) ==
  IF p.state = "pending" THEN [state |-> "rejected", value |-> e] ELSE p

(* ------------------------ findMetadataDescriptors ---------------------- *)

\* what klaw hands to the 'data' handler: the path and its lstat result
WalkItem(e, t) == [path |-> e.path, stats |-> [kind |-> e.kind, mtime |-> t]]

isFileStats(stats) == stats.kind = "file"

\* the descriptor built for an entry
MetaName(filePath, entryPath) ==
  SlashBackslashes(join(<<"META-INF">>, relative(filePath, entryPath)))

MakeDesc(filePath, entry) ==
  [name |-> MetaName(filePath, entry.path), fqp |-> entry.path]

IdleWalk ==
  [pc |-> "idle", emitted |-> {}, descriptors |-> << >>, errors |-> 0,
   late |-> FALSE, promise |-> PendingPromise]

\* new Promise(...): descriptors = [], klaw(filePath) with the three handlers
StartWalk == [IdleWalk EXCEPT !.pc = "walking"]

KeepAnyKind(entry) == isMetadata(entry.path)

\* the condition of the 'data' handler
Keep(entry) == isFileStats(entry.stats) /\ isMetadata(entry.path)

OnDataResolving(w, entry) ==
  [w EXCEPT !.emitted = @ \cup {entry.path},
            !.descriptors = IF Keep(entry) THEN Append(@, MakeDesc(MetaRoot, entry)) ELSE @,
            !.promise = SettleResolve(@, ListValue(w.descriptors))]

\* .on('data', ...)
OnData(w, entry) ==
  [w EXCEPT !.emitted = @ \cup {entry.path},
            !.descriptors = IF Keep(entry) THEN Append(@, MakeDesc(MetaRoot, entry)) ELSE @]

OnErrorLogOnly(w, error) == [w EXCEPT !.errors = @ + 1]

\* .on('error', ...)
OnError(w, error) ==
  [w EXCEPT !.errors = @ + 1, !.promise = SettleReject(@, error)]

\* .on('end', ...)
OnEnd(w) ==
  [w EXCEPT !.pc = "ended", !.promise = SettleResolve(@, ListValue(w.descriptors))]

(* ---------------------- packEntry and generateTarGz -------------------- *)

\* JavaScript values the entry code handles
Undefined == [type |-> "undefined", bytes |-> << >>]
Buffer(bytes) == [type |-> "Buffer", bytes |-> bytes]

\* !v : a Buffer is an object, and every object is truthy
Falsy(v) == v.type \in {"undefined", "null"}

\* content.size : a Buffer has length and byteLength, and no size property
SizeOf(content) == Undefined

ModeBits == 33188

ZeroTime == 0

MakeHeaderFromDisk(desc, content) ==
  [name |-> desc.name, size |-> SizeOf(content), mode |-> ModeBits,
   atime |-> MaxTime, mtime |-> MaxTime, ctime |-> MaxTime]

MakeHeader(desc, content) ==
  [name |-> desc.name, size |-> SizeOf(content), mode |-> ModeBits,
   atime |-> ZeroTime, mtime |-> ZeroTime, ctime |-> ZeroTime]

IdleTar ==
  [pc |-> "idle", src |-> "none", descs |-> << >>, i |-> 0,
   entries |-> << >>, appended |-> << >>, fired |-> 0, readErrs |-> << >>,
   err |-> NoValue, finalized |-> 0,
   gzipErr |-> FALSE, destErr |-> FALSE, finish |-> FALSE,
   promise |-> PendingPromise]

FinalizeResolving(t) ==
  [t EXCEPT !.finalized = @ + 1, !.pc = "done", !.promise = SettleResolve(@, TrueValue)]

\* pack.finalize() at the end of the executor
Finalize(t) == [t EXCEPT !.finalized = @ + 1, !.pc = "done"]

DescAtReversed(ds, i) == ds[Len(ds) + 1 - i]

\* the descriptor the i-th turn of the for-of loop takes
DescAt(ds, i) == ds[i]

\* packEntry(pack, desc) up to the point where its promise is left waiting:
\* readOk is whether readFileSync returned
PackEntry(t, readOk) ==
  LET desc == DescAt(t.descs, t.i)
      content == Buffer(Content(desc.fqp))
  IN  IF ~readOk
      THEN [t EXCEPT !.pc = "threw", !.err = ErrValue("read", t.i),
                     !.readErrs = Append(@, t.i)]
      ELSE IF Falsy(content)
      THEN [t EXCEPT !.pc = "threw", !.err = ErrValue("empty", t.i)]
      ELSE [t EXCEPT !.pc = "entry",
                     !.entries = Append(@, [header |-> MakeHeader(desc, content),
                                            content |-> content]),
                     !.appended = Append(@, t.i)]

\* the next turn of the loop, or the statement after it
NextTurn(t, readOk) ==
  IF t.i + 1 > Len(t.descs) THEN Finalize(t)
  ELSE PackEntry([t EXCEPT !.i = @ + 1], readOk)

CaughtSwallowed(t, err) == t

CaughtFinalizing(t, err) ==
  [t EXCEPT !.promise = SettleReject(@, err), !.finalized = @ + 1]

\* catch (err) { reject(err); }
Caught(t, err) == [t EXCEPT !.promise = SettleReject(@, err)]

OnFinishSilent(t) == [t EXCEPT !.finish = TRUE]

\* .on('finish', ...) of the destination
OnFinish(t) == [t EXCEPT !.finish = TRUE, !.promise = SettleResolve(@, TrueValue)]

\* .on('error', ...) of the destination
OnDestError(t, err) == [t EXCEPT !.destErr = TRUE, !.promise = SettleReject(@, err)]

\* the state generateTarGz sets up before the loop
NewTar(ds, src) == [IdleTar EXCEPT !.descs = ds, !.src = src]

(* ------------------------------- callers ------------------------------- *)

DescA == [name |-> <<"META-INF", SEP, "a", DOT, "json">>, fqp |-> Under(<<"a", DOT, "json">>)]
DescB == [name |-> <<"META-INF", SEP, "d", SEP, "b", DOT, "json">>,
          fqp |-> Under(<<"d", SEP, "b", DOT, "json">>)]
DescC == [name |-> <<"META-INF", SEP, "a", DOT, "json">>, fqp |-> Under(<<"d", SEP, "c", DOT, "txt">>)]

DescUniverse == {DescA, DescB, DescC}

SeqsUpTo(S, n) == UNION {[1..k -> S] : k \in 0..n}

CallerLists == SeqsUpTo(DescUniverse, MaxDescs)

(* ------------------------------- actions ------------------------------- *)

\* a packager of a concrete subclass, as the invocations below use it
ConcretePackager ==
  Constructor([isBase |-> FALSE, package |-> "own", findSource |-> "own"], KeepArray(<<GoExt>>))

Init ==
  /\ obj = ConcretePackager
  /\ runs = {1}
  /\ ftime \in {f \in [Runs -> 0..MaxTime] : \A r \in Runs \ runs : f[r] = 0}
  /\ walk = [r \in Runs |-> IdleWalk]
  /\ tar = [r \in Runs |-> IdleTar]

\* a caller invokes findMetadataDescriptors(MetaRoot)
FindMetadataDescriptors(r) ==
  /\ walk[r].pc = "idle" /\ tar[r].pc = "idle"
  /\ walk' = [walk EXCEPT ![r] = StartWalk]
  /\ UNCHANGED <<obj, runs, ftime, tar>>

WalkDataShared(r, e) ==
  /\ walk[r].pc = "walking"
  /\ e.path \notin walk[r].emitted
  /\ e.path = MetaRoot \/ Dirname(e.path) \in walk[r].emitted
  /\ walk' = [q \in Runs |->
               IF q = r
               THEN [OnData(walk[q], WalkItem(e, ftime[r])) EXCEPT
                       !.late = @ \/ walk[r].errors > 0]
               ELSE [walk[q] EXCEPT !.descriptors =
                       OnData(walk[q], WalkItem(e, ftime[r])).descriptors]]
  /\ UNCHANGED <<obj, runs, ftime, tar>>

\* klaw emits 'data' for an entry it has not emitted, once its directory was
WalkData(r, e) ==
  /\ walk[r].pc = "walking"
  /\ e.path \notin walk[r].emitted
  /\ e.path = MetaRoot \/ Dirname(e.path) \in walk[r].emitted
  /\ walk' = [walk EXCEPT ![r] = [OnData(@, WalkItem(e, ftime[r])) EXCEPT
                                    !.late = @ \/ walk[r].errors > 0]]
  /\ UNCHANGED <<obj, runs, ftime, tar>>

\* klaw emits 'error' and goes on
WalkError(r) ==
  /\ walk[r].pc = "walking"
  /\ walk[r].errors < MaxWalkErrors
  /\ walk' = [walk EXCEPT ![r] = OnError(@, ErrValue("walk", walk[r].errors + 1))]
  /\ UNCHANGED <<obj, runs, ftime, tar>>

\* klaw emits 'end': everything was emitted, or an error cut part of the tree
WalkEnd(r) ==
  /\ walk[r].pc = "walking"
  /\ walk[r].errors > 0 \/ walk[r].emitted = {e.path : e \in FsEntries}
  /\ walk' = [walk EXCEPT ![r] = OnEnd(@)]
  /\ UNCHANGED <<obj, runs, ftime, tar>>

\* generateTarGz(ds, dest): the executor runs to its first await
GenerateTarGz(r, ds, src, readOk) ==
  /\ tar[r].pc = "idle"
  /\ tar' = [tar EXCEPT ![r] = NextTurn(NewTar(ds, src), readOk)]
  /\ UNCHANGED <<obj, runs, ftime, walk>>

\* a caller packs a list of its own
PackList(r) ==
  /\ walk[r].pc = "idle"
  /\ \E ds \in CallerLists, readOk \in BOOLEAN : GenerateTarGz(r, ds, "list", readOk)

\* a caller packs what findMetadataDescriptors resolved with
PackWalked(r, readOk) ==
  /\ walk[r].promise.state = "resolved"
  /\ GenerateTarGz(r, walk[r].promise.value.list, "walk", readOk)

\* the await of a packEntry promise that was rejected resumes in the catch; the
\* resumption is a microtask, which runs ahead of every stream event
ResumeCaught(r, readOk) ==
  /\ tar[r].pc = "threw"
  /\ tar' = [tar EXCEPT ![r] = NextTurn(Caught(@, tar[r].err), readOk)]
  /\ UNCHANGED <<obj, runs, ftime, walk>>

\* the callback of pack.entry fires without error: resolve(true), next turn
EntryDone(r, readOk) ==
  /\ tar[r].pc = "entry"
  /\ tar' = [tar EXCEPT ![r] = NextTurn([@ EXCEPT !.fired = @ + 1], readOk)]
  /\ UNCHANGED <<obj, runs, ftime, walk>>

\* the callback of pack.entry fires with an error: reject(err), catch, next turn
EntryFailed(r, readOk) ==
  /\ tar[r].pc = "entry"
  /\ tar' = [tar EXCEPT ![r] =
               NextTurn(Caught([@ EXCEPT !.fired = @ + 1], ErrValue("entry", tar[r].i)), readOk)]
  /\ UNCHANGED <<obj, runs, ftime, walk>>

\* the gzip stream emits 'error': no handler is attached to it
GzipError(r) ==
  /\ tar[r].pc \in {"entry", "done"}
  /\ ~tar[r].gzipErr /\ ~tar[r].destErr /\ ~tar[r].finish
  /\ tar' = [tar EXCEPT ![r].gzipErr = TRUE]
  /\ UNCHANGED <<obj, runs, ftime, walk>>

\* the destination emits 'error'
DestError(r) ==
  /\ tar[r].pc \in {"entry", "done"}
  /\ ~tar[r].destErr /\ ~tar[r].finish
  /\ tar' = [tar EXCEPT ![r] = OnDestError(@, ErrValue("dest", 0))]
  /\ UNCHANGED <<obj, runs, ftime, walk>>

\* the destination emits 'finish': the pack was finalized and all of it went through
DestFinish(r) ==
  /\ tar[r].finalized > 0
  /\ ~tar[r].gzipErr /\ ~tar[r].destErr /\ ~tar[r].finish
  /\ tar' = [tar EXCEPT ![r] = OnFinish(@)]
  /\ UNCHANGED <<obj, runs, ftime, walk>>

Next ==
  \/ \E r \in runs : FindMetadataDescriptors(r)
  \/ \E r \in runs, e \in FsEntries : WalkData(r, e)
  \/ \E r \in runs : WalkError(r)
  \/ \E r \in runs : WalkEnd(r)
  \/ \E r \in runs : PackList(r)
  \/ \E r \in runs, readOk \in BOOLEAN : PackWalked(r, readOk)
  \/ \E r \in runs, readOk \in BOOLEAN : ResumeCaught(r, readOk)
  \/ \E r \in runs, readOk \in BOOLEAN : EntryDone(r, readOk)
  \/ \E r \in runs, readOk \in BOOLEAN : EntryFailed(r, readOk)
  \/ \E r \in runs : GzipError(r)
  \/ \E r \in runs : DestError(r)
  \/ \E r \in runs : DestFinish(r)

Spec == Init /\ [][Next]_vars

(* two invocations over the same files, every read and every stream healthy *)

InitTwo ==
  /\ obj = ConcretePackager
  /\ runs = Runs
  /\ ftime \in [Runs -> 0..MaxTime]
  /\ walk = [r \in Runs |-> IdleWalk]
  /\ tar = [r \in Runs |-> IdleTar]

NextTwo ==
  \/ \E r \in runs : FindMetadataDescriptors(r)
  \/ \E r \in runs, e \in FsEntries : WalkData(r, e)
  \/ \E r \in runs : WalkEnd(r)
  \/ \E r \in runs : PackWalked(r, TRUE)
  \/ \E r \in runs : EntryDone(r, TRUE)
  \/ \E r \in runs : DestFinish(r)

SpecTwo == InitTwo /\ [][NextTwo]_vars

(* one invocation whose reads succeed, whose entry callbacks fire without    *)
(* error and whose destination finishes                                     *)

\* a caller packs a list of its own, every file of which can be read
PackReadable(r) ==
  /\ walk[r].pc = "idle"
  /\ \E ds \in CallerLists : GenerateTarGz(r, ds, "list", TRUE)

NextLive ==
  \/ \E r \in runs : FindMetadataDescriptors(r)
  \/ \E r \in runs, e \in FsEntries : WalkData(r, e)
  \/ \E r \in runs : WalkEnd(r)
  \/ \E r \in runs : PackReadable(r)
  \/ \E r \in runs : PackWalked(r, TRUE)
  \/ \E r \in runs : EntryDone(r, TRUE)
  \/ \E r \in runs : DestFinish(r)

\* every entry callback eventually fires, the destination eventually finishes
SpecLive ==
  /\ Init /\ [][NextLive]_vars
  /\ \A r \in Runs : WF_vars(EntryDone(r, TRUE)) /\ WF_vars(DestFinish(r))

(* two invocations at once, with failing reads, entry errors and stream errors *)

\* a caller packs a short list of its own
PackShort(r) ==
  /\ walk[r].pc = "idle"
  /\ \E ds \in SeqsUpTo(DescUniverse, MaxConcDescs), readOk \in BOOLEAN :
       GenerateTarGz(r, ds, "list", readOk)

NextConc ==
  \/ \E r \in runs : FindMetadataDescriptors(r)
  \/ \E r \in runs, e \in FsEntries : WalkData(r, e)
  \/ \E r \in runs : WalkEnd(r)
  \/ \E r \in runs : PackShort(r)
  \/ \E r \in runs : PackWalked(r, TRUE)
  \/ \E r \in runs : ResumeCaught(r, TRUE)
  \/ \E r \in runs : EntryDone(r, TRUE)
  \/ \E r \in runs : EntryFailed(r, TRUE)
  \/ \E r \in runs : GzipError(r)
  \/ \E r \in runs : DestError(r)
  \/ \E r \in runs : DestFinish(r)

InitConc ==
  /\ obj = ConcretePackager
  /\ runs = Runs
  /\ ftime = [r \in Runs |-> 0]
  /\ walk = [r \in Runs |-> IdleWalk]
  /\ tar = [r \in Runs |-> IdleTar]

SpecConc == InitConc /\ [][NextConc]_vars

(* construction of a packager and calls of its synchronous methods *)

InitObj ==
  /\ obj = NoObject
  /\ runs = {}
  /\ ftime = [r \in Runs |-> 0]
  /\ walk = [r \in Runs |-> IdleWalk]
  /\ tar = [r \in Runs |-> IdleTar]

\* new cls(keep)
Construct(cls, keep) ==
  /\ obj.status = "none"
  /\ obj' = Constructor(cls, keep)
  /\ UNCHANGED <<runs, ftime, walk, tar>>

\* packager.findSource(filepath)
CallFindSource ==
  /\ obj.status = "ok"
  /\ obj' = findSource(obj)
  /\ UNCHANGED <<runs, ftime, walk, tar>>

\* packager.isSource(p): this.keep.indexOf throws a TypeError when keep was left out
CallIsSource(p) ==
  /\ obj.status = "ok"
  /\ obj' = [obj EXCEPT !.last =
               [op |-> "isSource", path |-> p,
                result |-> IF obj.keep.type = "undefined" THEN "TypeError"
                           ELSE BoolResult(isSource(obj.keep.items, p))]]
  /\ UNCHANGED <<runs, ftime, walk, tar>>

\* packager.isMetadata(p)
CallIsMetadata(p) ==
  /\ obj.status = "ok"
  /\ obj' = [obj EXCEPT !.last =
               [op |-> "isMetadata", path |-> p, result |-> BoolResult(isMetadata(p))]]
  /\ UNCHANGED <<runs, ftime, walk, tar>>

NextObj ==
  \/ \E cls \in Classes, keep \in KeepArgs : Construct(cls, keep)
  \/ CallFindSource
  \/ \E p \in PredPaths : CallIsSource(p)
  \/ \E p \in PredPaths : CallIsMetadata(p)

SpecObj == InitObj /\ [][NextObj]_vars

(* ------------------------------- claims -------------------------------- *)

Names(es) == [k \in 1..Len(es) |-> es[k].header.name]

DescNames(ds) == [k \in 1..Len(ds) |-> ds[k].name]

\* the regular files of FsEntries whose name ends in ".json"
RegularJsonFiles ==
  { Under(<<"a", DOT, "json">>),
    Under(<<"d", SEP, "b", DOT, "json">>),
    Under(<<"e", DOT, "json", SEP, "x", BSL, "y", DOT, "json">>) }

\* the catch of the first failed read has run
ReadFailureCaught(t) ==
  /\ t.readErrs # << >>
  /\ t.pc = "threw" => Len(t.readErrs) >= 2

\* C1: once the read of a descriptor has failed in generateTarGz, no later
\* descriptor is appended to the tar stream and the pack is never finalized.
C1_AbortOnReadFailure ==
  \A r \in runs :
    tar[r].readErrs # << >> =>
      /\ tar[r].finalized = 0
      /\ \A k \in 1..Len(tar[r].appended) : tar[r].appended[k] < tar[r].readErrs[1]

\* C2 as stated: once a read has failed and its catch has run, the promise of
\* generateTarGz is rejected with the error of that (first) failed read.
C2_RejectsWithThatReadError ==
  \A r \in runs :
    ReadFailureCaught(tar[r]) =>
      /\ tar[r].promise.state = "rejected"
      /\ tar[r].promise.value = ErrValue("read", tar[r].readErrs[1])

\* C2 amended: once a read has failed and its catch has run, the promise of
\* generateTarGz is rejected and stays rejected, also after 'finish'; its reason
\* is the error of the first failed read, unless a destination error or the
\* callback error of an earlier entry rejected it before that read.
C2_RejectedForGood ==
  \A r \in runs :
    ReadFailureCaught(tar[r]) =>
      LET v == tar[r].promise.value
      IN  /\ tar[r].promise.state = "rejected"
          /\ \/ v = ErrValue("read", tar[r].readErrs[1])
             \/ v = ErrValue("dest", 0) /\ tar[r].destErr
             \/ v.kind = "entry" /\ v.at \in 1..(tar[r].readErrs[1] - 1)

\* C2 witness: a read failed, the loop went on, the pack was finalized and the
\* destination finished, and the promise is still rejected with the read error.
C2_Witness ==
  \E r \in runs :
    /\ tar[r].readErrs # << >>
    /\ tar[r].finish
    /\ tar[r].promise = [state |-> "rejected", value |-> ErrValue("read", tar[r].readErrs[1])]

C4_StreamErrorRejects ==
  \A r \in runs :
    (tar[r].gzipErr \/ tar[r].destErr) => tar[r].promise.state = "rejected"

\* C5: the promise of generateTarGz is resolved only once the destination has
\* emitted 'finish'; appending the last entry or finalizing does not resolve it.
C5_ResolvedOnlyAfterFinish ==
  \A r \in runs : tar[r].promise.state = "resolved" => tar[r].finish

\* C5 witness: entries were appended, the pack finalized, the destination
\* finished, and the promise is resolved with true.
C5_Witness ==
  \E r \in runs :
    /\ Len(tar[r].entries) >= 1 /\ tar[r].finalized > 0 /\ tar[r].finish
    /\ tar[r].promise = [state |-> "resolved", value |-> TrueValue]

\* C6: no tar entry is appended for a file whose content has zero bytes.
C6_NoEntryForEmptyFile ==
  \A r \in runs :
    \A k \in 1..Len(tar[r].entries) : tar[r].entries[k].content.bytes # << >>

\* both invocations walked the files, packed what the walk resolved with, and finalized
BothPacked ==
  \A r \in Runs :
    r \in runs /\ tar[r].src = "walk" /\ tar[r].finalized > 0 /\ tar[r].readErrs = << >>

\* C7: two invocations over the same files and contents, whatever their walk
\* orders and file times, append the same sequence of (header, content) entries.
C7_SameEntries ==
  BothPacked => tar[1].entries = tar[2].entries

\* C8: the promise of findMetadataDescriptors is resolved only after 'end', and
\* its list holds every regular .json file the walk emitted.
C8_ResolvedAfterEnd ==
  \A r \in runs :
    walk[r].promise.state = "resolved" =>
      /\ walk[r].pc = "ended"
      /\ walk[r].promise.value.kind = "list"
      /\ \A p \in RegularJsonFiles \cap walk[r].emitted :
           \E k \in 1..Len(walk[r].promise.value.list) :
             walk[r].promise.value.list[k].fqp = p

\* C8 witness: a walk has ended and resolved with a list of several descriptors.
C8_Witness ==
  \E r \in runs :
    /\ walk[r].pc = "ended"
    /\ walk[r].promise.state = "resolved"
    /\ Len(walk[r].promise.value.list) >= 2

\* C9: a walk that ends without error resolves with exactly one descriptor for
\* each regular .json file under the root and none for anything else.
C9_ExactlyTheJsonFiles ==
  \A r \in runs :
    (walk[r].pc = "ended" /\ walk[r].errors = 0) =>
      LET l == walk[r].promise.value.list
      IN  /\ walk[r].promise.state = "resolved"
          /\ {l[k].fqp : k \in 1..Len(l)} = RegularJsonFiles
          /\ Len(l) = Cardinality(RegularJsonFiles)

\* C9 witness: a walk over directories, a symlink, a dot file, another
\* extension and .json files has ended without error.
C9_Witness ==
  \E r \in runs :
    /\ walk[r].pc = "ended" /\ walk[r].errors = 0
    /\ walk[r].emitted = {e.path : e \in FsEntries}

\* C10: once the walk has emitted an error, the promise of
\* findMetadataDescriptors is rejected with the first error emitted, whatever
\* 'data', 'error' or 'end' events follow.
C10_WalkErrorRejects ==
  \A r \in runs :
    walk[r].errors > 0 =>
      walk[r].promise = [state |-> "rejected", value |-> ErrValue("walk", 1)]

\* C10 witness: after an error the walk emitted a matching file and then 'end'.
C10_Witness ==
  \E r \in runs :
    /\ walk[r].errors > 0 /\ walk[r].late /\ walk[r].pc = "ended"
    /\ walk[r].descriptors # << >>

\* C11: constructing BasePackager, or a subclass without its own package,
\* throws a TypeError before keep is assigned; a subclass with its own package
\* and no findSource is constructed, and its findSource throws when called.
C11_AbstractChecks ==
  obj.status # "none" =>
    /\ (obj.cls.isBase \/ obj.cls.package = "base") =>
         obj.status = "threw" /\ obj.error = "TypeError" /\ ~obj.keepSet
    /\ (~obj.cls.isBase /\ obj.cls.package = "own") =>
         obj.status = "ok" /\ obj.keepSet
    /\ (obj.last.op = "findSource" /\ obj.cls.findSource = "base") =>
         obj.last.result = "Error"

\* C11 witness: a subclass with package and without findSource was constructed
\* and its findSource was called.
C11_Witness ==
  /\ obj.status = "ok" /\ obj.cls.package = "own" /\ obj.cls.findSource = "base"
  /\ obj.last.op = "findSource"

\* C12: every header passed to the tar stream is that of a regular file with
\* permission bits 0644 and atime, mtime and ctime at epoch 0, whatever the
\* timestamps of the file on disk.
C12_PinnedHeader ==
  \A r \in runs :
    \A k \in 1..Len(tar[r].entries) :
      LET h == tar[r].entries[k].header
      IN  /\ h.mode % 4096 = 420
          /\ h.mode \div 4096 = 8
          /\ h.atime = 0 /\ h.mtime = 0 /\ h.ctime = 0

\* C12 witness: an entry was appended for files whose time on disk is not 0.
C12_Witness ==
  \E r \in runs : Len(tar[r].entries) >= 1 /\ ftime[r] > 0

\* C13: the size field of every header packEntry constructs is the number of
\* bytes of the content read for the descriptor.
C13_SizeIsByteLength ==
  \A r \in runs :
    \A k \in 1..Len(tar[r].entries) :
      LET e == tar[r].entries[k]
      IN  e.header.size.type = "number" /\ e.header.size.n = Len(e.content.bytes)

\* the path of each regular .json file relative to the metadata root, as it
\* is on disk
RelPathOnDisk(fqp) ==
  IF fqp = Under(<<"a", DOT, "json">>) THEN <<"a", DOT, "json">>
  ELSE IF fqp = Under(<<"d", SEP, "b", DOT, "json">>) THEN <<"d", SEP, "b", DOT, "json">>
  ELSE <<"e", DOT, "json", SEP, "x", BSL, "y", DOT, "json">>

\* the same with every backslash replaced by a slash
RelPathSlashed(fqp) ==
  IF fqp = Under(<<"a", DOT, "json">>) THEN <<"a", DOT, "json">>
  ELSE IF fqp = Under(<<"d", SEP, "b", DOT, "json">>) THEN <<"d", SEP, "b", DOT, "json">>
  ELSE <<"e", DOT, "json", SEP, "x", SEP, "y", DOT, "json">>

HasBackslash(s) == \E i \in 1..Len(s) : s[i] = BSL

\* C14 as stated: every descriptor name is 'META-INF/' followed by the file's
\* path relative to the metadata root, and holds no backslash.
C14_NameIsRelativePath ==
  \A r \in runs :
    \A k \in 1..Len(walk[r].descriptors) :
      LET d == walk[r].descriptors[k]
      IN  /\ d.name = <<"META-INF", SEP>> \o RelPathOnDisk(d.fqp)
          /\ ~HasBackslash(d.name)

\* C14 amended: every descriptor name is 'META-INF/' followed by the file's
\* path relative to the metadata root with each backslash replaced by '/', so
\* it holds no backslash, and for a path without backslash it is 'META-INF/'
\* followed by the relative path itself, at any depth.
C14_NameIsSlashedRelativePath ==
  \A r \in runs :
    \A k \in 1..Len(walk[r].descriptors) :
      LET d == walk[r].descriptors[k]
      IN  /\ d.name = <<"META-INF", SEP>> \o RelPathSlashed(d.fqp)
          /\ ~HasBackslash(d.name)
          /\ ~HasBackslash(d.fqp) => d.name = <<"META-INF", SEP>> \o RelPathOnDisk(d.fqp)

\* C14 witness: descriptors were built for a nested file and for a file whose
\* name holds a backslash.
C14_Witness ==
  \E r \in runs :
    /\ \E k \in 1..Len(walk[r].descriptors) :
         walk[r].descriptors[k].fqp = Under(<<"d", SEP, "b", DOT, "json">>)
    /\ \E k \in 1..Len(walk[r].descriptors) : HasBackslash(walk[r].descriptors[k].fqp)

\* the extension of each path of PredPaths, with its leading dot
ExpectedExt(p) ==
  IF p = <<"x", DOT, "go">> THEN <<DOT, "go">>
  ELSE IF p = <<"x", DOT, "GO">> THEN <<DOT, "GO">>
  ELSE IF p = <<"a", DOT, "json">> THEN <<DOT, "json">>
  ELSE IF p = <<"a", DOT, "JSON">> THEN <<DOT, "JSON">>
  ELSE IF p = <<"x", DOT, "go", DOT, "json">> THEN <<DOT, "json">>
  ELSE << >>

Member(items, x) == \E i \in 1..Len(items) : items[i] = x

\* the step is a call of isSource or isMetadata
PredicateCalled ==
  obj'.last # obj.last /\ obj'.last.op \in {"isSource", "isMetadata"}

\* C15: isSource(p) is true iff the extension of p is, exactly and with its
\* case, a member of the keep list, isMetadata(p) is true iff the extension of
\* p is '.json', and a call of either changes nothing of the packager or of
\* its invocations.
C15_Classification ==
  [][ PredicateCalled =>
        /\ obj'.status = obj.status /\ obj'.cls = obj.cls
        /\ obj'.keepSet = obj.keepSet /\ obj'.keep = obj.keep
        /\ UNCHANGED <<runs, ftime, walk, tar>>
        /\ (obj'.last.op = "isSource" /\ obj.keep.type = "array") =>
             obj'.last.result =
               BoolResult(Member(obj.keep.items, ExpectedExt(obj'.last.path)))
        /\ obj'.last.op = "isMetadata" =>
             obj'.last.result = BoolResult(ExpectedExt(obj'.last.path) = <<DOT, "json">>)
    ]_vars

\* C15 witness: isSource was asked about x.GO with '.go' in keep and said no.
C15_Witness ==
  /\ obj.last = [op |-> "isSource", path |-> <<"x", DOT, "GO">>, result |-> "false"]
  /\ obj.keep.type = "array" /\ Member(obj.keep.items, <<DOT, "go">>)

\* the last call asked a predicate about a path without extension, on a
\* packager constructed with a keep list
BarePathAsked ==
  /\ obj.last.op \in {"isSource", "isMetadata"}
  /\ ExpectedExt(obj.last.path) = << >>
  /\ obj.keep.type = "array"

\* C16 as stated: for every keep list, isSource and isMetadata return false
\* for a path without extension.
C16_BarePathNeverClassified ==
  BarePathAsked => obj.last.result = "false"

\* C16 amended: for every keep list that does not hold the empty string,
\* isSource and isMetadata return false for a path without extension;
\* isMetadata does so for every keep list.
C16_BarePathNeverClassifiedUnlessKept ==
  BarePathAsked =>
    /\ ~Member(obj.keep.items, << >>) => obj.last.result = "false"
    /\ obj.last.op = "isMetadata" => obj.last.result = "false"

\* C16 witness: isSource was asked about README on a packager keeping '.go'.
C16_Witness ==
  /\ obj.last = [op |-> "isSource", path |-> <<"README">>, result |-> "false"]
  /\ obj.keep = KeepArray(<<GoExt>>)

\* one step of an invocation that runs alone: from walk state w and pack
\* state t, with file time ft, to w2 and t2
SoloStep(w, t, ft, w2, t2) ==
  \/ /\ w.pc = "idle" /\ t.pc = "idle"
     /\ w2 = StartWalk /\ t2 = t
  \/ /\ w.pc = "walking" /\ t2 = t
     /\ \/ \E e \in FsEntries :
             /\ e.path \notin w.emitted
             /\ e.path = MetaRoot \/ Dirname(e.path) \in w.emitted
             /\ w2 = [OnData(w, WalkItem(e, ft)) EXCEPT !.late = @ \/ w.errors > 0]
        \/ w.errors < MaxWalkErrors /\ w2 = OnError(w, ErrValue("walk", w.errors + 1))
        \/ /\ w.errors > 0 \/ w.emitted = {e.path : e \in FsEntries}
           /\ w2 = OnEnd(w)
  \/ /\ t.pc = "idle" /\ w2 = w
     /\ \E readOk \in BOOLEAN :
          \/ /\ w.pc = "idle"
             /\ \E ds \in CallerLists : t2 = NextTurn(NewTar(ds, "list"), readOk)
          \/ /\ w.promise.state = "resolved"
             /\ t2 = NextTurn(NewTar(w.promise.value.list, "walk"), readOk)
  \/ /\ t.pc = "threw" /\ w2 = w
     /\ \E readOk \in BOOLEAN : t2 = NextTurn(Caught(t, t.err), readOk)
  \/ /\ t.pc = "entry" /\ w2 = w
     /\ \E readOk \in BOOLEAN :
          \/ t2 = NextTurn([t EXCEPT !.fired = @ + 1], readOk)
          \/ t2 = NextTurn(Caught([t EXCEPT !.fired = @ + 1], ErrValue("entry", t.i)), readOk)
  \/ /\ t.pc \in {"entry", "done"} /\ w2 = w /\ ~t.finish /\ ~t.destErr
     /\ \/ ~t.gzipErr /\ t2 = [t EXCEPT !.gzipErr = TRUE]
        \/ t2 = OnDestError(t, ErrValue("dest", 0))
        \/ t.finalized > 0 /\ ~t.gzipErr /\ t2 = OnFinish(t)

AllSettled(t) ==
  /\ t.i = Len(t.descs)
  /\ Len(t.appended) + Len(t.readErrs) = Len(t.descs)
  /\ t.fired = Len(t.entries)

\* C18: pack.finalize is called at most once, it has been called exactly once
\* when the executor is through, only after the packEntry promise of every
\* descriptor has settled, and no entry is appended after it.
C18_FinalizeOnceAtEnd ==
  /\ [](\A r \in runs :
          /\ tar[r].finalized <= 1
          /\ tar[r].pc = "done" <=> tar[r].finalized = 1
          /\ tar[r].finalized = 1 => AllSettled(tar[r]))
  /\ [][ \A r \in runs :
           tar[r].finalized > 0 =>
             tar'[r].entries = tar[r].entries /\ tar'[r].finalized = tar[r].finalized
       ]_vars

\* C18 witness: a list of three was finalized after one read failed and the
\* callbacks of the other entries fired.
C18_Witness ==
  \E r \in runs :
    /\ tar[r].finalized = 1 /\ Len(tar[r].descs) = 3
    /\ Len(tar[r].readErrs) = 1 /\ tar[r].fired = 2

\* C19: no two entries appended by one generateTarGz have the same name.
C19_UniqueNames ==
  \A r \in runs :
    \A j, k \in 1..Len(tar[r].entries) :
      j # k => tar[r].entries[j].header.name # tar[r].entries[k].header.name

\* C20: when every read succeeds, every entry callback eventually fires
\* without error and the destination eventually finishes, a started
\* generateTarGz eventually has finalized the pack and resolved with true.
C20_EventuallyResolves ==
  \A r \in Runs :
    (tar[r].pc # "idle") ~>
      (tar[r].finalized = 1 /\ tar[r].promise = [state |-> "resolved", value |-> TrueValue])

\* C20 witness: generateTarGz of the empty list has finalized and resolved.
C20_Witness ==
  \E r \in runs :
    /\ tar[r].pc = "done" /\ tar[r].descs = << >>
    /\ tar[r].promise = [state |-> "resolved", value |-> TrueValue]

====
